---- MODULE Spec2Model ----
(***************************************************************************)
(* State-machine model of the image studio front end:                      *)
(*   - App (expanded-node canvas, artwork / mockup generation, cancel),    *)
(*   - CachedImage (persistent image cache consumers).                     *)
(* Every handler is one action per run-to-completion step: the code        *)
(* between two awaits executes atomically on the UI event loop.            *)
(***************************************************************************)
EXTENDS Integers, Sequences, FiniteSets, TLC

(***************************************************************************)
(* Bounds of the model.                                                    *)
(***************************************************************************)
MaxNow == 2          \* Date.now() ranges over 0..MaxNow
MaxExpand == 2       \* handleExpandImage calls per behaviour of the canvas
AppMaxExpand == 1    \* handleExpandImage calls per behaviour of the whole App
AppMaxRuns == 1      \* generation runs per behaviour of the whole App
AppMaxNow == 1       \* Date.now() ranges over 0..AppMaxNow in the whole App
MaxPrompts == 1      \* prompts of one mockup run
MaxCount == 2        \* images / copies requested by one run
MaxLoads == 2        \* CachedImage effect runs per behaviour

(***************************************************************************)
(* Value sets the inputs are drawn from.                                   *)
(***************************************************************************)
None == "none"                        \* null / undefined image
Images == {"imgA", "imgB"}            \* data urls returned by the service
AppImages == {"imgA"}
Ratios == {"16:9"}
Positions == {[x |-> 300, y |-> 300], [x |-> 60, y |-> 0]}
Rects == {[x |-> 100, y |-> 50, w |-> 40, h |-> 40],
          [x |-> 60, y |-> 50, w |-> 420, h |-> 20]}

VARIABLES
    \* ---- App (src/unnamed/part_003, lines 227-253) ----
    userApiKey,          \* TRUE iff a key is assigned to the user
    artwork,             \* applied artwork or None
    previews,            \* sequence of generated artwork previews
    currentIndex,        \* 0-based index into previews
    currentMockups,      \* sequence of LogEntry, newest first
    generationLog,       \* number of entries added by addResultToLog
    isLoading,
    progress,            \* [done, total, label]
    status,              \* [message, type] of the last showStatus call
    expandedNodes,       \* sequence of ExpandedNode
    isUpscaled,
    abortControllerRef,  \* 0 = null, else the number of the controller
    aborted,             \* set of controllers whose signal is aborted
    runs,                \* generation runs, in start order
    exps,                \* handleExpandImage calls that passed the key check, in start order
    saving,              \* the handleSaveAllExpanded call in flight
    now,                 \* Date.now()
    removed,             \* history: nodes removed by handleCloseNode
    staleMove,           \* history: a move event named the id of a closed node
    \* ---- CachedImage and the persistent store ----
    store,               \* the persistent store: a sequence of [key, value]
    consumers,           \* per CachedImage instance: [mounted, impl, src, imageSrc, load, effectPending]
    loads,               \* the loadImage calls (effect runs), in start order
    fetchCount,          \* history: network fetches started, per url
    \* ---- ImageEditor ----
    editor,              \* [isOpen, sourceImage, outputImage, prompt, isLoading]
    edits,               \* the handleGenerate calls that passed their checks, in start order
    \* ---- SettingsModal ----
    settings             \* [role, isOpen, activeTab, effectPending]

appVars == <<userApiKey, artwork, previews, currentIndex, currentMockups,
             generationLog, isLoading, progress, status, expandedNodes,
             isUpscaled, abortControllerRef, aborted, runs, exps, saving,
             now, removed, staleMove>>

cacheVars == <<store, consumers, loads, fetchCount>>

editorVars == <<editor, edits>>

settingsVars == <<settings>>

\* what the App handlers leave alone, and what CachedImage leaves alone
notApp == <<cacheVars, editorVars, settingsVars>>
notCache == <<appVars, editorVars, settingsVars>>

(***************************************************************************)
(* Helpers                                                                 *)
(***************************************************************************)

NoProgress == [done |-> 0, total |-> 0, label |-> ""]
NoEntry == [id |-> <<0, 0, 0>>, type |-> "none", dataUrl |-> "", error |-> FALSE, createdAt |-> 0]

\* ids of the DOM elements an expansion can start from
MainArtworkImage == [kind |-> "main-artwork-image", key |-> <<0, 0, 0>>]
LogItem(entryId) == [kind |-> "log-item", key |-> entryId]

\* showStatus(message, type): the toast shows the message
showStatus(message, type) == [message |-> message, type |-> type]

\* ArtColumn: const currentImage = previews.length > 0 ? previews[currentIndex] : artwork
currentImage ==
    IF Len(previews) > 0
    THEN IF currentIndex + 1 \in DOMAIN previews THEN previews[currentIndex + 1] ELSE None
    ELSE artwork

\* props handed to the columns
artIsLoading == isLoading /\ progress.total = 0
mockupIsLoading == isLoading /\ progress.total > 0

(***************************************************************************)
(* Expanded-node canvas                                                    *)
(***************************************************************************)
\* a node placed on the top-left corner of its source element
NewNodeOnAnchor(source, ratio, expandedUrl, rect) ==
    [id |-> now,
     sourceId |-> source.id,
     dataUrl |-> expandedUrl,
     ratioLabel |-> ratio,
     position |-> [x |-> rect.x, y |-> rect.y]]

\* the node handleExpandImage builds from the service result and the
\* bounding rectangle of the source element
NewNode(source, ratio, expandedUrl, rect) ==
    [id |-> now,
     sourceId |-> source.id,
     dataUrl |-> expandedUrl,
     ratioLabel |-> ratio,
     position |-> [x |-> (rect.x + rect.w) - 420, y |-> rect.y - 50]]

\* handleExpandImage up to its first await
handleExpandImage(source, ratio) ==
    /\ IF ~userApiKey
       THEN /\ status' = showStatus("noApiKey", "err")
            /\ UNCHANGED exps
       ELSE /\ status' = showStatus("expanding", "info")
            /\ exps' = Append(exps, [pc |-> "downscale", source |-> source, ratio |-> ratio,
                                     cancelled |-> FALSE, nodeId |-> -1])
    /\ UNCHANGED <<userApiKey, artwork, previews, currentIndex, currentMockups,
                   generationLog, isLoading, progress, expandedNodes, isUpscaled,
                   abortControllerRef, aborted, runs, saving, now, removed, staleMove>>
    /\ UNCHANGED notApp

\* ArtColumn context menu: expand the image currently shown
ExpandFromArt(ratio) ==
    /\ currentImage # None
    /\ handleExpandImage([id |-> MainArtworkImage, dataUrl |-> currentImage], ratio)

\* MockupColumn context menu: expand a mockup that has an image
ExpandFromMockup(k, ratio) ==
    /\ k \in DOMAIN currentMockups
    /\ ~currentMockups[k].error
    /\ handleExpandImage([id |-> LogItem(currentMockups[k].id),
                          dataUrl |-> currentMockups[k].dataUrl], ratio)

\* await downscaleDataUrl(source.dataUrl) settles
ExpandDownscaled(e, ok) ==
    /\ e \in DOMAIN exps
    /\ exps[e].pc = "downscale"
    /\ IF ok
       THEN /\ exps' = [exps EXCEPT ![e].pc = "generate"]
            /\ UNCHANGED status
       ELSE /\ exps' = [exps EXCEPT ![e].pc = "failed"]
            /\ status' = showStatus("expandFailed", "err")
    /\ UNCHANGED <<userApiKey, artwork, previews, currentIndex, currentMockups,
                   generationLog, isLoading, progress, expandedNodes, isUpscaled,
                   abortControllerRef, aborted, runs, saving, now, removed, staleMove>>
    /\ UNCHANGED notApp

\* a catch block that still puts a (broken) node on the canvas
ExpandCatchAppends(e) ==
    /\ exps' = [exps EXCEPT ![e].pc = "failed"]
    /\ status' = showStatus("expandFailed", "err")
    /\ expandedNodes' = Append(expandedNodes,
                               NewNode(exps[e].source, exps[e].ratio, None,
                                       [x |-> 0, y |-> 0, w |-> 0, h |-> 0]))

\* the catch block of handleExpandImage
ExpandCatch(e) ==
    /\ exps' = [exps EXCEPT ![e].pc = "failed"]
    /\ status' = showStatus("expandFailed", "err")
    /\ UNCHANGED expandedNodes

\* the code after a successful generateArtwork call
ExpandAppend(e, expandedUrl, rect) ==
    /\ expandedNodes' = Append(expandedNodes,
                               NewNode(exps[e].source, exps[e].ratio, expandedUrl, rect))
    /\ exps' = [exps EXCEPT ![e].pc = "ok", ![e].nodeId = now]    \* nodeId: history
    /\ status' = showStatus("expanded", "ok")

\* await geminiService.generateArtwork(...) settles
ExpandGenerated(e, ok, expandedUrl, rect) ==
    /\ e \in DOMAIN exps
    /\ exps[e].pc = "generate"
    /\ IF ok THEN ExpandAppend(e, expandedUrl, rect) ELSE ExpandCatch(e)
    /\ UNCHANGED <<userApiKey, artwork, previews, currentIndex, currentMockups,
                   generationLog, isLoading, progress, isUpscaled,
                   abortControllerRef, aborted, runs, saving, now, removed, staleMove>>
    /\ UNCHANGED notApp

\* history: the ids of the nodes that were created and are no longer there
ClosedIds ==
    {exps[e].nodeId : e \in {d \in DOMAIN exps : exps[d].pc = "ok"}}
    \ {expandedNodes[k].id : k \in DOMAIN expandedNodes}

\* a move that puts a node of that id on the canvas when none is there
handleNodePositionChangeUpserts(id, pos) ==
    /\ expandedNodes' =
          IF \E k \in DOMAIN expandedNodes : expandedNodes[k].id = id
          THEN [k \in DOMAIN expandedNodes |->
                   IF expandedNodes[k].id = id
                   THEN [expandedNodes[k] EXCEPT !.position = pos] ELSE expandedNodes[k]]
          ELSE Append(expandedNodes,
                      [id |-> id, sourceId |-> MainArtworkImage, dataUrl |-> None,
                       ratioLabel |-> "", position |-> pos])
    /\ staleMove' = (staleMove \/ id \in ClosedIds)
    /\ UNCHANGED <<userApiKey, artwork, previews, currentIndex, currentMockups,
                   generationLog, isLoading, progress, status, isUpscaled,
                   abortControllerRef, aborted, runs, exps, saving, now, removed>>
    /\ UNCHANGED notApp

\* a map that moves every node, whatever its id
MoveNodesAll(nodes, id, pos) ==
    [k \in DOMAIN nodes |-> [nodes[k] EXCEPT !.position = pos]]

\* nodes.map(n => n.id === id ? { ...n, position: pos } : n)
MoveNodes(nodes, id, pos) ==
    [k \in DOMAIN nodes |->
        IF nodes[k].id = id THEN [nodes[k] EXCEPT !.position = pos] ELSE nodes[k]]

\* nodes.filter(n => n.id !== id)
RECURSIVE CloseNodes(_, _)
CloseNodes(nodes, id) ==
    IF nodes = <<>> THEN <<>>
    ELSE (IF Head(nodes).id # id THEN <<Head(nodes)>> ELSE <<>>)
         \o CloseNodes(Tail(nodes), id)

handleNodePositionChange(id, pos) ==
    /\ expandedNodes' = MoveNodes(expandedNodes, id, pos)
    /\ staleMove' = (staleMove \/ id \in ClosedIds)
    /\ UNCHANGED <<userApiKey, artwork, previews, currentIndex, currentMockups,
                   generationLog, isLoading, progress, status, isUpscaled,
                   abortControllerRef, aborted, runs, exps, saving, now, removed>>
    /\ UNCHANGED notApp

handleCloseNode(id) ==
    /\ expandedNodes' = CloseNodes(expandedNodes, id)
    /\ removed' = removed + (Len(expandedNodes) - Len(expandedNodes'))
    /\ UNCHANGED <<userApiKey, artwork, previews, currentIndex, currentMockups,
                   generationLog, isLoading, progress, status, isUpscaled,
                   abortControllerRef, aborted, runs, exps, saving, now, staleMove>>
    /\ UNCHANGED notApp

(***************************************************************************)
(* Generation runs                                                         *)
(***************************************************************************)
NewRun(kind, pc, n, count) ==
    [kind |-> kind, pc |-> pc, n |-> n, count |-> count, pi |-> 1, i |-> 0,
     jobsCompleted |-> 0, images |-> <<>>, li |-> 0, entry |-> NoEntry,
     cancelled |-> FALSE]

\* the signal of run r is the signal of the controller created by run r
SignalAborted(r) == r \in aborted

\* history: the expansion requests in flight when handleCancel runs
MarkCancelled(es) ==
    [e \in DOMAIN es |->
        IF es[e].pc \in {"downscale", "generate"} THEN [es[e] EXCEPT !.cancelled = TRUE]
        ELSE es[e]]

\* history: the generation runs in flight when handleCancel runs
MarkRunsCancelled(rs) ==
    [r \in DOMAIN rs |->
        IF rs[r].pc # "done" THEN [rs[r] EXCEPT !.cancelled = TRUE] ELSE rs[r]]

handleCancel ==
    /\ isLoading                       \* the Cancel buttons are rendered while loading
    /\ aborted' = IF abortControllerRef # 0 THEN aborted \cup {abortControllerRef}
                  ELSE aborted
    /\ isLoading' = FALSE
    /\ progress' = NoProgress
    /\ status' = showStatus("cancelled", "warn")
    /\ exps' = MarkCancelled(exps)    \* history only
    /\ runs' = MarkRunsCancelled(runs) \* history only
    /\ UNCHANGED <<userApiKey, artwork, previews, currentIndex, currentMockups,
                   generationLog, expandedNodes, isUpscaled, abortControllerRef,
                   saving, now, removed, staleMove>>
    /\ UNCHANGED notApp

\* handleGenerateArt up to its first await
handleGenerateArt(count) ==
    /\ ~artIsLoading                   \* Generate is disabled while the column loads
    /\ IF ~userApiKey
       THEN /\ status' = showStatus("noApiKey", "err")
            /\ UNCHANGED <<isLoading, previews, currentIndex, abortControllerRef, runs>>
       ELSE /\ isLoading' = TRUE
            /\ previews' = <<>>
            /\ currentIndex' = 0
            /\ status' = showStatus("generatingArt", "info")
            /\ abortControllerRef' = Len(runs) + 1
            /\ runs' = Append(runs, NewRun("art", "downscale", 0, count))
    /\ UNCHANGED <<userApiKey, artwork, currentMockups, generationLog, progress,
                   expandedNodes, isUpscaled, aborted, exps, saving, now, removed, staleMove>>
    /\ UNCHANGED notApp

ArtEntry(k, url) ==
    [id |-> <<0, k, now>>, type |-> "artwork", dataUrl |-> url, error |-> FALSE,
     createdAt |-> now]

\* catch and finally of handleGenerateArt
ArtCatch(r, cancelled) ==
    /\ status' = IF cancelled THEN showStatus("artCancelled", "warn")
                 ELSE showStatus("artFailed", "err")
    /\ isLoading' = FALSE
    /\ runs' = [runs EXCEPT ![r].pc = "done"]

\* await Promise.all(artRefs.map(downscaleDataUrl)) settles
ArtDownscaled(r, ok) ==
    /\ r \in DOMAIN runs
    /\ runs[r].kind = "art" /\ runs[r].pc = "downscale"
    /\ IF ok
       THEN /\ runs' = [runs EXCEPT ![r].pc = "generate"]
            /\ UNCHANGED <<status, isLoading>>
       ELSE ArtCatch(r, FALSE)
    /\ UNCHANGED <<userApiKey, artwork, previews, currentIndex, currentMockups,
                   generationLog, progress, expandedNodes, isUpscaled,
                   abortControllerRef, aborted, exps, saving, now, removed, staleMove>>
    /\ UNCHANGED notApp

\* await geminiService.generateArtwork(...) settles
ArtGenerated(r, ok, generatedImages) ==
    /\ r \in DOMAIN runs
    /\ runs[r].kind = "art" /\ runs[r].pc = "generate"
    /\ Len(generatedImages) = runs[r].count
    /\ IF ~ok THEN ArtCatch(r, FALSE) /\ UNCHANGED previews
       ELSE IF SignalAborted(r) THEN ArtCatch(r, TRUE) /\ UNCHANGED previews
       ELSE /\ previews' = generatedImages
            /\ runs' = [runs EXCEPT ![r].pc = "log", ![r].images = generatedImages,
                                    ![r].li = 1,
                                    ![r].entry = ArtEntry(0, generatedImages[1])]
            /\ UNCHANGED <<status, isLoading>>
    /\ UNCHANGED <<userApiKey, artwork, currentIndex, currentMockups,
                   generationLog, progress, expandedNodes, isUpscaled,
                   abortControllerRef, aborted, exps, saving, now, removed, staleMove>>
    /\ UNCHANGED notApp

\* await addResultToLog(...) of the artwork loop settles
ArtLogged(r) ==
    /\ r \in DOMAIN runs
    /\ runs[r].kind = "art" /\ runs[r].pc = "log"
    /\ generationLog' = generationLog + 1
    /\ IF runs[r].li < Len(runs[r].images)
       THEN /\ runs' = [runs EXCEPT ![r].li = @ + 1,
                                    ![r].entry = ArtEntry(runs[r].li, runs[r].images[runs[r].li + 1])]
            /\ UNCHANGED <<status, isLoading>>
       ELSE /\ status' = showStatus("artDone", "ok")
            /\ isLoading' = FALSE
            /\ runs' = [runs EXCEPT ![r].pc = "done"]
    /\ UNCHANGED <<userApiKey, artwork, previews, currentIndex, currentMockups,
                   progress, expandedNodes, isUpscaled,
                   abortControllerRef, aborted, exps, saving, now, removed, staleMove>>
    /\ UNCHANGED notApp

handleApplyArtwork(b64) ==
    /\ artwork' = b64
    /\ previews' = <<>>
    /\ currentIndex' = 0
    /\ status' = showStatus("applied", "ok")
    /\ UNCHANGED <<userApiKey, currentMockups, generationLog, isLoading, progress,
                   expandedNodes, isUpscaled, abortControllerRef, aborted, runs,
                   exps, saving, now, removed, staleMove>>
    /\ UNCHANGED notApp

\* ArtColumn: Add / Paste / drop of an image file
ApplyFromFile(b64) == b64 \in Images /\ handleApplyArtwork(b64)

\* ArtColumn: the Apply button, onArtworkApply(previews[currentIndex])
ApplyPreview == Len(previews) > 0 /\ handleApplyArtwork(currentImage)

\* ArtColumn: previous / next buttons
onCurrentIndexChange(step) ==
    /\ Len(previews) > 1
    /\ currentIndex' = (currentIndex + step + Len(previews)) % Len(previews)
    /\ UNCHANGED <<userApiKey, artwork, previews, currentMockups, generationLog,
                   isLoading, progress, status, expandedNodes, isUpscaled,
                   abortControllerRef, aborted, runs, exps, saving, now, removed, staleMove>>
    /\ UNCHANGED notApp

\* a handleGenerateMockups that clears the canvas together with the mockups
handleGenerateMockupsClearsNodes(n, count) ==
    /\ ~mockupIsLoading                \* Generate is disabled while the column loads
    /\ IF artwork = None
       THEN /\ status' = showStatus("needArtwork", "err")
            /\ UNCHANGED <<currentMockups, isLoading, progress, abortControllerRef, runs,
                           expandedNodes>>
       ELSE IF ~userApiKey
       THEN /\ status' = showStatus("noApiKey", "err")
            /\ UNCHANGED <<currentMockups, isLoading, progress, abortControllerRef, runs,
                           expandedNodes>>
       ELSE /\ currentMockups' = <<>>
            /\ expandedNodes' = <<>>
            /\ isLoading' = TRUE
            /\ progress' = [done |-> 0, total |-> n * count, label |-> "Generating mockups..."]
            /\ abortControllerRef' = Len(runs) + 1
            /\ runs' = Append(runs, NewRun("mockup", "downscaleArtwork", n, count))
            /\ UNCHANGED status
    /\ UNCHANGED <<userApiKey, artwork, previews, currentIndex, generationLog,
                   isUpscaled, aborted, exps, saving, now, removed, staleMove>>
    /\ UNCHANGED notApp

\* a handleGenerateMockups that switches to loading before its checks
handleGenerateMockupsLoadsFirst(n, count) ==
    /\ ~mockupIsLoading
    /\ isLoading' = TRUE
    /\ IF artwork = None
       THEN /\ status' = showStatus("needArtwork", "err")
            /\ UNCHANGED <<currentMockups, progress, abortControllerRef, runs>>
       ELSE IF ~userApiKey
       THEN /\ status' = showStatus("noApiKey", "err")
            /\ UNCHANGED <<currentMockups, progress, abortControllerRef, runs>>
       ELSE /\ currentMockups' = <<>>
            /\ progress' = [done |-> 0, total |-> n * count, label |-> "Generating mockups..."]
            /\ abortControllerRef' = Len(runs) + 1
            /\ runs' = Append(runs, NewRun("mockup", "downscaleArtwork", n, count))
            /\ UNCHANGED status
    /\ UNCHANGED <<userApiKey, artwork, previews, currentIndex, generationLog,
                   expandedNodes, isUpscaled, aborted, exps, saving, now, removed, staleMove>>
    /\ UNCHANGED notApp

\* handleGenerateMockups up to its first await
handleGenerateMockups(n, count) ==
    /\ ~mockupIsLoading                \* Generate is disabled while the column loads
    /\ IF artwork = None
       THEN /\ status' = showStatus("needArtwork", "err")
            /\ UNCHANGED <<currentMockups, isLoading, progress, abortControllerRef, runs>>
       ELSE IF ~userApiKey
       THEN /\ status' = showStatus("noApiKey", "err")
            /\ UNCHANGED <<currentMockups, isLoading, progress, abortControllerRef, runs>>
       ELSE /\ currentMockups' = <<>>
            /\ isLoading' = TRUE
            /\ progress' = [done |-> 0, total |-> n * count, label |-> "Generating mockups..."]
            /\ abortControllerRef' = Len(runs) + 1
            /\ runs' = Append(runs, NewRun("mockup", "downscaleArtwork", n, count))
            /\ UNCHANGED status
    /\ UNCHANGED <<userApiKey, artwork, previews, currentIndex, generationLog,
                   expandedNodes, isUpscaled, aborted, exps, saving, now, removed, staleMove>>
    /\ UNCHANGED notApp

\* outer catch and finally of handleGenerateMockups
MockupCatch(r, cancelled) ==
    /\ status' = IF cancelled THEN showStatus("mockupCancelled", "warn")
                 ELSE showStatus("mockupFailed", "err")
    /\ isLoading' = FALSE
    /\ progress' = NoProgress
    /\ runs' = [runs EXCEPT ![r].pc = "done"]

\* head of the job loop for the job (run.pi, run.i); p is the progress after
\* the updates of the job that just ended
MockupLoop(r, run, p) ==
    IF run.pi > run.n
    THEN \* both loops are over
         /\ status' = IF ~SignalAborted(r) THEN showStatus("mockupDone", "ok") ELSE status
         /\ isLoading' = FALSE
         /\ progress' = NoProgress
         /\ runs' = [runs EXCEPT ![r] = [run EXCEPT !.pc = "done"]]
    ELSE IF SignalAborted(r)
    THEN /\ status' = showStatus("mockupCancelled", "warn")
         /\ isLoading' = FALSE
         /\ progress' = NoProgress
         /\ runs' = [runs EXCEPT ![r] = [run EXCEPT !.pc = "done"]]
    ELSE /\ runs' = [runs EXCEPT ![r] = [run EXCEPT !.pc = "generate",
                                                    !.entry = [NoEntry EXCEPT !.id = <<run.pi, run.i, now>>]]]
         /\ progress' = p
         /\ UNCHANGED <<status, isLoading>>

\* await downscaleDataUrl(artwork) settles
MockupArtworkDownscaled(r, ok) ==
    /\ r \in DOMAIN runs
    /\ runs[r].kind = "mockup" /\ runs[r].pc = "downscaleArtwork"
    /\ IF ok
       THEN /\ runs' = [runs EXCEPT ![r].pc = "downscaleSamples"]
            /\ UNCHANGED <<status, isLoading, progress>>
       ELSE MockupCatch(r, FALSE)
    /\ UNCHANGED <<userApiKey, artwork, previews, currentIndex, currentMockups,
                   generationLog, expandedNodes, isUpscaled,
                   abortControllerRef, aborted, exps, saving, now, removed, staleMove>>
    /\ UNCHANGED notApp

\* await Promise.all(samples.map(downscaleDataUrl)) settles
MockupSamplesDownscaled(r, ok) ==
    /\ r \in DOMAIN runs
    /\ runs[r].kind = "mockup" /\ runs[r].pc = "downscaleSamples"
    /\ IF ok THEN MockupLoop(r, runs[r], progress) ELSE MockupCatch(r, FALSE)
    /\ UNCHANGED <<userApiKey, artwork, previews, currentIndex, currentMockups,
                   generationLog, expandedNodes, isUpscaled,
                   abortControllerRef, aborted, exps, saving, now, removed, staleMove>>
    /\ UNCHANGED notApp

\* a job loop that a failed generation ends
MockupGeneratedFailureStops(r, ok, resultUrl) ==
    /\ r \in DOMAIN runs
    /\ runs[r].kind = "mockup" /\ runs[r].pc = "generate"
    /\ IF SignalAborted(r)
       THEN MockupCatch(r, TRUE)
       ELSE IF ~ok
       THEN MockupCatch(r, FALSE)
       ELSE /\ runs' = [runs EXCEPT ![r].pc = "log",
                                    ![r].entry = [id |-> runs[r].entry.id,
                                                  type |-> "mockup",
                                                  dataUrl |-> resultUrl,
                                                  error |-> FALSE,
                                                  createdAt |-> now]]
            /\ UNCHANGED <<status, isLoading, progress>>
    /\ UNCHANGED <<userApiKey, artwork, previews, currentIndex, currentMockups,
                   generationLog, expandedNodes, isUpscaled,
                   abortControllerRef, aborted, exps, saving, now, removed, staleMove>>
    /\ UNCHANGED notApp

\* await geminiService.generateMockup(...) settles
MockupGenerated(r, ok, resultUrl) ==
    /\ r \in DOMAIN runs
    /\ runs[r].kind = "mockup" /\ runs[r].pc = "generate"
    /\ IF SignalAborted(r)
       THEN MockupCatch(r, TRUE)
       ELSE /\ runs' = [runs EXCEPT ![r].pc = "log",
                                    ![r].entry = [id |-> runs[r].entry.id,
                                                  type |-> "mockup",
                                                  dataUrl |-> IF ok THEN resultUrl ELSE "",
                                                  error |-> ~ok,
                                                  createdAt |-> now]]
            /\ UNCHANGED <<status, isLoading, progress>>
    /\ UNCHANGED <<userApiKey, artwork, previews, currentIndex, currentMockups,
                   generationLog, expandedNodes, isUpscaled,
                   abortControllerRef, aborted, exps, saving, now, removed, staleMove>>
    /\ UNCHANGED notApp

\* await addResultToLog(newEntry) of a job settles; then the inner finally
\* and the next turn of the loop
MockupLogged(r) ==
    /\ r \in DOMAIN runs
    /\ runs[r].kind = "mockup" /\ runs[r].pc = "log"
    /\ generationLog' = generationLog + 1
    /\ currentMockups' = <<runs[r].entry>> \o currentMockups
    /\ LET jc == IF SignalAborted(r) THEN runs[r].jobsCompleted
                 ELSE runs[r].jobsCompleted + 1
           p == IF SignalAborted(r) THEN progress ELSE [progress EXCEPT !.done = jc]
           last == runs[r].i + 1 >= runs[r].count
           run == [runs[r] EXCEPT !.jobsCompleted = jc,
                                  !.pi = IF last THEN @ + 1 ELSE @,
                                  !.i = IF last THEN 0 ELSE @ + 1]
       IN  MockupLoop(r, run, p)
    /\ UNCHANGED <<userApiKey, artwork, previews, currentIndex,
                   expandedNodes, isUpscaled,
                   abortControllerRef, aborted, exps, saving, now, removed, staleMove>>
    /\ UNCHANGED notApp

(***************************************************************************)
(* Save All Expanded                                                       *)
(***************************************************************************)
NotSaving == [pc |-> "idle", total |-> 0, k |-> 0, upscale |-> FALSE, savedCount |-> 0]

\* one turn of the loop body up to its next await, for node k of the nodes
\* captured by the call (only their number matters to the model)
SaveTurn(sv) ==
    IF sv.k > sv.total
    THEN /\ status' = showStatus("savedExpanded", "ok")
         /\ saving' = [sv EXCEPT !.pc = "idle"]
    ELSE IF sv.upscale
    THEN /\ saving' = [sv EXCEPT !.pc = "upscale"]
         /\ UNCHANGED status
    ELSE /\ saving' = [sv EXCEPT !.pc = "delay", !.savedCount = @ + 1]
         /\ UNCHANGED status

handleSaveAllExpanded ==
    /\ ~mockupIsLoading               \* Save All Expanded is disabled while loading
    /\ saving.pc = "idle"
    /\ IF Len(expandedNodes) = 0
       THEN /\ status' = showStatus("noExpanded", "info")
            /\ UNCHANGED saving
       ELSE LET sv == [pc |-> "start", total |-> Len(expandedNodes), k |-> 1,
                       upscale |-> isUpscaled, savedCount |-> 0]
            IN  IF sv.upscale
                THEN /\ saving' = [sv EXCEPT !.pc = "upscale"]
                     /\ status' = showStatus("savingExpanded", "info")
                ELSE /\ saving' = [sv EXCEPT !.pc = "delay", !.savedCount = 1]
                     /\ status' = showStatus("savingExpanded", "info")
    /\ UNCHANGED <<userApiKey, artwork, previews, currentIndex, currentMockups,
                   generationLog, isLoading, progress, expandedNodes, isUpscaled,
                   abortControllerRef, aborted, runs, exps, now, removed, staleMove>>
    /\ UNCHANGED notApp

\* await upscale2xDataURL(node.dataUrl) settles
SaveUpscaled(ok) ==
    /\ saving.pc = "upscale"
    /\ IF ok
       THEN /\ saving' = [saving EXCEPT !.pc = "delay", !.savedCount = @ + 1]
            /\ UNCHANGED status
       ELSE /\ saving' = [saving EXCEPT !.pc = "idle"]
            /\ status' = showStatus("saveExpandedFailed", "err")
    /\ UNCHANGED <<userApiKey, artwork, previews, currentIndex, currentMockups,
                   generationLog, isLoading, progress, expandedNodes, isUpscaled,
                   abortControllerRef, aborted, runs, exps, now, removed, staleMove>>
    /\ UNCHANGED notApp

\* the 200 ms delay between two downloads elapses
SaveDelayed ==
    /\ saving.pc = "delay"
    /\ SaveTurn([saving EXCEPT !.k = @ + 1])
    /\ UNCHANGED <<userApiKey, artwork, previews, currentIndex, currentMockups,
                   generationLog, isLoading, progress, expandedNodes, isUpscaled,
                   abortControllerRef, aborted, runs, exps, now, removed, staleMove>>
    /\ UNCHANGED notApp

(***************************************************************************)
(* Environment of App                                                      *)
(***************************************************************************)
\* the clock behind Date.now() advances
Tick ==
    /\ now' = now + 1
    /\ UNCHANGED <<userApiKey, artwork, previews, currentIndex, currentMockups,
                   generationLog, isLoading, progress, status, expandedNodes,
                   isUpscaled, abortControllerRef, aborted, runs, exps, saving,
                   removed, staleMove>>
    /\ UNCHANGED notApp

\* useApiKeys(auth.user) delivers a list in which the key of the user
\* appears or no longer appears
ApiKeysChanged ==
    /\ userApiKey' = ~userApiKey
    /\ UNCHANGED <<artwork, previews, currentIndex, currentMockups,
                   generationLog, isLoading, progress, status, expandedNodes, isUpscaled,
                   abortControllerRef, aborted, runs, exps, saving, now, removed, staleMove>>
    /\ UNCHANGED notApp

\* MockupColumn: the Scale x2 switch
onUpscaleChange ==
    /\ isUpscaled' = ~isUpscaled
    /\ UNCHANGED <<userApiKey, artwork, previews, currentIndex, currentMockups,
                   generationLog, isLoading, progress, status, expandedNodes,
                   abortControllerRef, aborted, runs, exps, saving, now, removed, staleMove>>
    /\ UNCHANGED notApp

InitApp ==
    /\ userApiKey \in BOOLEAN
    /\ artwork = None
    /\ previews = <<>>
    /\ currentIndex = 0
    /\ currentMockups = <<>>
    /\ generationLog = 0
    /\ isLoading = FALSE
    /\ progress = NoProgress
    /\ status = [message |-> "", type |-> "info"]
    /\ expandedNodes = <<>>
    /\ isUpscaled = FALSE
    /\ abortControllerRef = 0
    /\ aborted = {}
    /\ runs = <<>>
    /\ exps = <<>>
    /\ saving = NotSaving
    /\ now = 0
    /\ removed = 0
    /\ staleMove = FALSE

(***************************************************************************)
(* CachedImage: the component of src/components/common/CachedImage.tsx     *)
(* (impl "fetch") and its Image/canvas variant (impl "canvas").            *)
(***************************************************************************)
Consumers == {"c1", "c2"}
Urls == {"u1", "u2"}
Impls == {"fetch", "canvas"}

Null == [kind |-> "null", url |-> "", enc |-> ""]
\* a data url holding the content of url u; a fetched blob keeps the bytes
\* ("raw"), the canvas re-encodes them as PNG ("png")
DataUrl(u, enc) == [kind |-> "data", url |-> u, enc |-> enc]
\* the remote locator itself used as the image source
RawUrl(u) == [kind |-> "url", url |-> u, enc |-> ""]

\* cacheService: the places of the entries stored under a key
EntriesFor(st, key) == {k \in DOMAIN st : st[k].key = key}

\* cacheService.getImage(key): the stored value, or Null when absent
getImage(st, key) ==
    IF EntriesFor(st, key) = {} THEN Null
    ELSE st[CHOOSE k \in EntriesFor(st, key) : \A j \in EntriesFor(st, key) : j <= k].value

RECURSIVE WithoutKey(_, _)
WithoutKey(st, key) ==
    IF st = <<>> THEN <<>>
    ELSE (IF Head(st).key # key THEN <<Head(st)>> ELSE <<>>) \o WithoutKey(Tail(st), key)

\* a save that adds an entry and keeps the older ones
saveImageAppendOnly(st, key, value) ==
    Append(st, [key |-> key, value |-> value])

\* cacheService.saveImage(key, value): overwrite the entry of the key
saveImage(st, key, value) ==
    Append(WithoutKey(st, key), [key |-> key, value |-> value])

NoLoad == 0
Unmounted == [mounted |-> FALSE, impl |-> "fetch", src |-> "", imageSrc |-> Null, load |-> NoLoad,
              effectPending |-> FALSE]

\* the closure of one effect run; startHit, read, fetched and cutOff (the
\* effect was cleaned up before the load had ended) are history
NewLoad(c, impl, src) ==
    [owner |-> c, impl |-> impl, src |-> src, isMounted |-> TRUE,
     pc |-> "getImage", dataUrl |-> Null, save |-> "none",
     startHit |-> EntriesFor(store, src) # {}, read |-> "pending", fetched |-> FALSE,
     cutOff |-> FALSE]

\* the effect of [src] runs: loadImage() up to its first await, for the
\* consumers cs after the render and the loads ls after the cleanup
RunEffect(cs, ls, c) ==
    IF cs[c].src = ""
    THEN /\ consumers' = [cs EXCEPT ![c].imageSrc = Null, ![c].load = NoLoad]
         /\ loads' = ls
    ELSE /\ consumers' = [cs EXCEPT ![c].imageSrc = Null, ![c].load = Len(ls) + 1]
         /\ loads' = Append(ls, NewLoad(c, cs[c].impl, cs[c].src))

\* the cleanup of the effect: isMounted = false
Cleanup(ls, c) ==
    [k \in DOMAIN ls |->
        IF ls[k].owner = c /\ ls[k].isMounted
        THEN [ls[k] EXCEPT !.isMounted = FALSE,
                           !.cutOff = ls[k].pc \notin {"hit", "loaded", "fallback"}]
        ELSE ls[k]]

\* a CachedImage is rendered for the first time
Mount(c, impl, src) ==
    /\ ~consumers[c].mounted
    /\ RunEffect([consumers EXCEPT ![c] = [mounted |-> TRUE, impl |-> impl, src |-> src,
                                           imageSrc |-> Null, load |-> NoLoad,
                                           effectPending |-> FALSE]],
                 loads, c)
    /\ UNCHANGED <<store, fetchCount>>
    /\ UNCHANGED notCache

\* the src prop changes and React runs the effects before anything else
\* happens: cleanup of the old effect, then the new effect
ChangeSrc(c, src) ==
    /\ consumers[c].mounted
    /\ ~consumers[c].effectPending
    /\ src # consumers[c].src
    /\ RunEffect([consumers EXCEPT ![c].src = src], Cleanup(loads, c), c)
    /\ UNCHANGED <<store, fetchCount>>
    /\ UNCHANGED notCache

\* the src prop changes and the component is rendered with it; useEffect
\* defers the effect of [src], so the state imageSrc is still the old one
Render(c, src) ==
    /\ consumers[c].mounted
    /\ ~consumers[c].effectPending
    /\ src # consumers[c].src
    /\ consumers' = [consumers EXCEPT ![c].src = src, ![c].effectPending = TRUE]
    /\ UNCHANGED <<store, loads, fetchCount>>
    /\ UNCHANGED notCache

\* React runs the deferred effects of the last render: cleanup of the old
\* effect, then the new effect
FlushEffect(c) ==
    /\ consumers[c].mounted
    /\ consumers[c].effectPending
    /\ RunEffect([consumers EXCEPT ![c].effectPending = FALSE], Cleanup(loads, c), c)
    /\ UNCHANGED <<store, fetchCount>>
    /\ UNCHANGED notCache

\* the component is removed: cleanup of the effect
Unmount(c) ==
    /\ consumers[c].mounted
    /\ consumers' = [consumers EXCEPT ![c] = Unmounted]
    /\ loads' = Cleanup(loads, c)
    /\ UNCHANGED <<store, fetchCount>>
    /\ UNCHANGED notCache

\* a setImageSrc without the isMounted check
SetImageSrcAlways(l, value) ==
    consumers' = [consumers EXCEPT ![loads[l].owner].imageSrc = value]

\* if (isMounted) setImageSrc(value); React runs the effect that is due
\* before it renders the update, so the setImageSrc(null) of that effect
\* comes after it and the value is never displayed
SetImageSrc(l, value) ==
    IF loads[l].isMounted /\ ~consumers[loads[l].owner].effectPending
    THEN consumers' = [consumers EXCEPT ![loads[l].owner].imageSrc = value]
    ELSE UNCHANGED consumers

\* a hit that shows the content but misses the return and goes on to fetch
CacheHitNoReturn(l, cachedDataUrl) ==
    /\ SetImageSrc(l, cachedDataUrl)
    /\ loads' = [loads EXCEPT ![l].pc = IF loads[l].impl = "fetch" THEN "fetch" ELSE "image",
                              ![l].read = "hit", ![l].dataUrl = cachedDataUrl,
                              ![l].fetched = TRUE]
    /\ fetchCount' = [fetchCount EXCEPT ![loads[l].src] = @ + 1]

\* the cache answered with content: show it and return
CacheHit(l, cachedDataUrl) ==
    /\ SetImageSrc(l, cachedDataUrl)
    /\ loads' = [loads EXCEPT ![l].pc = "hit", ![l].read = "hit",
                              ![l].dataUrl = cachedDataUrl]
    /\ UNCHANGED fetchCount

\* a miss that joins the request of another load of the same url that is
\* on the network, and asks the network only when there is none
CacheMissCoalesces(l, threw) ==
    IF \E o \in DOMAIN loads :
          /\ o # l /\ loads[o].src = loads[l].src
          /\ loads[o].pc \in {"fetch", "blob", "blobToDataURL", "image"}
    THEN /\ loads' = [loads EXCEPT ![l].pc = "joined",
                                   ![l].read = IF threw THEN "threw" ELSE "miss"]
         /\ UNCHANGED <<fetchCount, consumers>>
    ELSE /\ loads' = [loads EXCEPT ![l].pc = IF loads[l].impl = "fetch" THEN "fetch" ELSE "image",
                                   ![l].read = IF threw THEN "threw" ELSE "miss",
                                   ![l].fetched = TRUE]
         /\ fetchCount' = [fetchCount EXCEPT ![loads[l].src] = @ + 1]
         /\ UNCHANGED consumers

\* a miss that gives up when the read threw
CacheMissStopsOnThrow(l, threw) ==
    IF threw
    THEN /\ loads' = [loads EXCEPT ![l].pc = "readFailed", ![l].read = "threw"]
         /\ UNCHANGED <<fetchCount, consumers>>
    ELSE /\ loads' = [loads EXCEPT ![l].pc = IF loads[l].impl = "fetch" THEN "fetch" ELSE "image",
                                   ![l].read = "miss", ![l].fetched = TRUE]
         /\ fetchCount' = [fetchCount EXCEPT ![loads[l].src] = @ + 1]
         /\ UNCHANGED consumers

\* no content from the cache: go to the network
CacheMiss(l, threw) ==
    /\ loads' = [loads EXCEPT ![l].pc = IF loads[l].impl = "fetch" THEN "fetch" ELSE "image",
                              ![l].read = IF threw THEN "threw" ELSE "miss",
                              ![l].fetched = TRUE]
    /\ fetchCount' = [fetchCount EXCEPT ![loads[l].src] = @ + 1]
    /\ UNCHANGED consumers

\* await getImage(src) settles
ReadSettled(l, threw) ==
    /\ l \in DOMAIN loads
    /\ loads[l].pc = "getImage"
    /\ LET cachedDataUrl == getImage(store, loads[l].src)
       IN  IF ~threw /\ cachedDataUrl # Null
           THEN CacheHit(l, cachedDataUrl)
           ELSE CacheMiss(l, threw)
    /\ UNCHANGED store
    /\ UNCHANGED notCache

\* a success path that saves the content and never shows it
LoadedSavesOnly(l, dataUrl) ==
    /\ UNCHANGED consumers
    /\ loads' = [loads EXCEPT ![l].pc = "loaded", ![l].dataUrl = dataUrl,
                              ![l].save = "pending"]

\* the content is there: show it and save it in the background
Loaded(l, dataUrl) ==
    /\ SetImageSrc(l, dataUrl)
    /\ loads' = [loads EXCEPT ![l].pc = "loaded", ![l].dataUrl = dataUrl,
                              ![l].save = "pending"]

\* a fallback that also writes the url to the store
FallbackSavesUrl(l) ==
    /\ SetImageSrc(l, RawUrl(loads[l].src))
    /\ loads' = [loads EXCEPT ![l].pc = "fallback", ![l].dataUrl = RawUrl(loads[l].src),
                              ![l].save = "pending"]

\* a fallback that leaves the placeholder in place
FallbackKeepsPlaceholder(l) ==
    /\ UNCHANGED consumers
    /\ loads' = [loads EXCEPT ![l].pc = "fallback"]

\* the network path failed: fall back to the url itself
Fallback(l) ==
    /\ SetImageSrc(l, RawUrl(loads[l].src))
    /\ loads' = [loads EXCEPT ![l].pc = "fallback"]

\* await fetch(src) settles: a response that is ok, one that is not, or a rejection
FetchSettled(l, res) ==
    /\ l \in DOMAIN loads
    /\ loads[l].pc = "fetch"
    /\ IF res = "ok"
       THEN loads' = [loads EXCEPT ![l].pc = "blob"] /\ UNCHANGED consumers
       ELSE Fallback(l)
    /\ UNCHANGED <<store, fetchCount>>
    /\ UNCHANGED notCache

\* await response.blob() settles
BlobSettled(l, ok) ==
    /\ l \in DOMAIN loads
    /\ loads[l].pc = "blob"
    /\ IF ok
       THEN loads' = [loads EXCEPT ![l].pc = "blobToDataURL"] /\ UNCHANGED consumers
       ELSE Fallback(l)
    /\ UNCHANGED <<store, fetchCount>>
    /\ UNCHANGED notCache

\* await blobToDataURL(blob) settles
EncodeSettled(l, ok) ==
    /\ l \in DOMAIN loads
    /\ loads[l].pc = "blobToDataURL"
    /\ IF ok THEN Loaded(l, DataUrl(loads[l].src, "raw")) ELSE Fallback(l)
    /\ UNCHANGED <<store, fetchCount>>
    /\ UNCHANGED notCache

\* img.onload / img.onerror of the canvas variant: the image loaded and was
\* encoded ("load"), getContext returned null, toDataURL threw, or onerror
ImageSettled(l, res) ==
    /\ l \in DOMAIN loads
    /\ loads[l].pc = "image"
    /\ IF res = "load" THEN Loaded(l, DataUrl(loads[l].src, "png")) ELSE Fallback(l)
    /\ UNCHANGED <<store, fetchCount>>
    /\ UNCHANGED notCache

\* a save keyed by something else than the url
SaveRequestWrongKey(load) == [key |-> "", value |-> load.dataUrl]

\* the arguments of saveImage(src, dataUrl)
SaveRequest(load) == [key |-> load.src, value |-> load.dataUrl]

\* a failed save that takes the image off the screen
SaveSettledFailureClearsDisplay(l, ok) ==
    /\ l \in DOMAIN loads
    /\ loads[l].save = "pending"
    /\ IF ok
       THEN /\ store' = saveImage(store, SaveRequest(loads[l]).key, SaveRequest(loads[l]).value)
            /\ loads' = [loads EXCEPT ![l].save = "saved"]
            /\ UNCHANGED consumers
       ELSE /\ loads' = [loads EXCEPT ![l].save = "failed"]
            /\ consumers' = [consumers EXCEPT ![loads[l].owner].imageSrc = Null]
            /\ UNCHANGED store
    /\ UNCHANGED fetchCount
    /\ UNCHANGED notCache

\* the background saveImage(...) settles
SaveSettled(l, ok) ==
    /\ l \in DOMAIN loads
    /\ loads[l].save = "pending"
    /\ IF ok
       THEN /\ store' = saveImage(store, SaveRequest(loads[l]).key, SaveRequest(loads[l]).value)
            /\ loads' = [loads EXCEPT ![l].save = "saved"]
       ELSE /\ loads' = [loads EXCEPT ![l].save = "failed"]
            /\ UNCHANGED store
    /\ UNCHANGED <<consumers, fetchCount>>
    /\ UNCHANGED notCache

\* the store outlives the sessions: it can hold content of an earlier one
InitStores == {<<>>, <<[key |-> "u1", value |-> DataUrl("u1", "raw")]>>}

InitCache ==
    /\ store \in InitStores
    /\ consumers = [c \in Consumers |-> Unmounted]
    /\ loads = <<>>
    /\ fetchCount = [u \in Urls |-> 0]

(***************************************************************************)
(* ImageEditor                                                             *)
(***************************************************************************)
EditorMaxEdits == 2  \* handleGenerate calls of the editor per behaviour

NullOutput == [kind |-> "null", of |-> None]

\* the image generateArtwork returns for the source image src
Edited(src) == [kind |-> "edited", of |-> src]

\* the state after resetState
NoEditor == [isOpen |-> FALSE, sourceImage |-> None, outputImage |-> NullOutput,
             prompt |-> FALSE, isLoading |-> FALSE]

\* what the editor and the settings modal leave alone: all of App but
\* the status message, and the cache
notModals == <<userApiKey, artwork, previews, currentIndex, currentMockups,
               generationLog, isLoading, progress, expandedNodes,
               isUpscaled, abortControllerRef, aborted, runs, exps, saving,
               now, removed, staleMove, cacheVars>>

\* Header: the Image Editor button, setIsImageEditorOpen(true)
onImageEditorClick ==
    /\ ~editor.isOpen
    /\ editor' = [editor EXCEPT !.isOpen = TRUE]
    /\ UNCHANGED <<edits, status, settingsVars, notModals>>

\* the close button and the backdrop: resetState(), onClose()
handleClose ==
    /\ editor.isOpen
    /\ editor' = NoEditor
    /\ UNCHANGED <<edits, status, settingsVars, notModals>>

\* an image arrives from the file dialog or a drop
handleImageUpload(dataUrl) ==
    /\ editor.isOpen
    /\ editor' = [editor EXCEPT !.sourceImage = dataUrl, !.outputImage = NullOutput]
    /\ UNCHANGED <<edits, status, settingsVars, notModals>>

\* the Paste button, with an image on the clipboard
handlePaste(dataUrl) ==
    /\ editor.isOpen
    /\ editor.sourceImage = None
    /\ editor' = [editor EXCEPT !.sourceImage = dataUrl, !.outputImage = NullOutput]
    /\ status' = showStatus("pasted", "ok")
    /\ UNCHANGED <<edits, settingsVars, notModals>>

\* the Remove button, rendered over a source image
handleRemoveImage ==
    /\ editor.isOpen
    /\ editor.sourceImage # None
    /\ editor' = [editor EXCEPT !.sourceImage = None, !.outputImage = NullOutput]
    /\ UNCHANGED <<edits, status, settingsVars, notModals>>

\* the instruction text area; only whether the text is blank matters
setPrompt(nonBlank) ==
    /\ editor.isOpen
    /\ editor.sourceImage # None /\ ~editor.isLoading
    /\ editor' = [editor EXCEPT !.prompt = nonBlank]
    /\ UNCHANGED <<edits, status, settingsVars, notModals>>

\* the Generate Edit button (disabled while loading, without a source or
\* with a blank prompt): handleGenerate up to its first await
handleGenerate ==
    /\ editor.isOpen
    /\ ~editor.isLoading /\ editor.sourceImage # None /\ editor.prompt
    /\ IF ~userApiKey
       THEN /\ status' = showStatus("noApiKey", "err")
            /\ UNCHANGED <<editor, edits>>
       ELSE /\ editor' = [editor EXCEPT !.isLoading = TRUE, !.outputImage = NullOutput]
            /\ edits' = Append(edits, [pc |-> "aspect", source |-> editor.sourceImage])
            /\ UNCHANGED status
    /\ UNCHANGED <<settingsVars, notModals>>

\* catch and finally of handleGenerate
EditCatch(e) ==
    /\ status' = showStatus("editFailed", "err")
    /\ editor' = [editor EXCEPT !.isLoading = FALSE]
    /\ edits' = [edits EXCEPT ![e].pc = "done"]

\* await getImageAspectRatio(sourceImage) settles
EditAspectSettled(e, ok) ==
    /\ e \in DOMAIN edits
    /\ edits[e].pc = "aspect"
    /\ IF ok
       THEN /\ edits' = [edits EXCEPT ![e].pc = "generate"]
            /\ UNCHANGED <<editor, status>>
       ELSE EditCatch(e)
    /\ UNCHANGED <<settingsVars, notModals>>

\* await geminiService.generateArtwork(finalPrompt, ..., [sourceImage], 1, key) settles
EditGenerated(e, ok) ==
    /\ e \in DOMAIN edits
    /\ edits[e].pc = "generate"
    /\ IF ok
       THEN /\ editor' = [editor EXCEPT !.outputImage = Edited(edits[e].source),
                                        !.isLoading = FALSE]
            /\ status' = showStatus("edited", "ok")
            /\ edits' = [edits EXCEPT ![e].pc = "done"]
       ELSE EditCatch(e)
    /\ UNCHANGED <<settingsVars, notModals>>

InitEditor ==
    /\ editor = NoEditor
    /\ edits = <<>>

(***************************************************************************)
(* SettingsModal and the Settings button of Header                         *)
(***************************************************************************)
Roles == {"admin", "manager", "user"}

ALL_TABS ==
    << [id |-> "api", adminOnly |-> TRUE],
       [id |-> "users", adminOnly |-> TRUE],
       [id |-> "prompts", adminOnly |-> FALSE],
       [id |-> "samples", adminOnly |-> FALSE],
       [id |-> "refs", adminOnly |-> FALSE],
       [id |-> "cuts", adminOnly |-> FALSE] >>

Undefined == "undefined"

availableTabs(role) ==
    LET notAdminOnly(t) == ~t.adminOnly
    IN  IF role = "admin" THEN ALL_TABS
        ELSE IF role = "manager" THEN SelectSeq(ALL_TABS, notAdminOnly)
        ELSE <<>>

TabIds(tabs) == {tabs[k].id : k \in DOMAIN tabs}

\* availableTabs[0]?.id
FirstTabId(role) ==
    IF availableTabs(role) # <<>> THEN availableTabs(role)[1].id ELSE Undefined

renderContent(role, activeTab) ==
    CASE activeTab = "api" -> IF role = "admin" THEN "ApiKeyPanel" ELSE "null"
      [] activeTab = "users" -> IF role = "admin" THEN "UserManagementPanel" ELSE "null"
      [] activeTab = "prompts" -> "PromptTemplatePanel"
      [] activeTab = "samples" -> "ImageTemplatePanel:Sample"
      [] activeTab = "refs" -> "ImageTemplatePanel:ArtRef"
      [] activeTab = "cuts" -> "CutTemplatePanel"
      [] OTHER -> "null"

\* what the modal shows: its tab buttons and its panel, nothing when closed
RenderedTabs == IF settings.isOpen THEN TabIds(availableTabs(settings.role)) ELSE {}
RenderedPanel ==
    IF settings.isOpen THEN renderContent(settings.role, settings.activeTab) ELSE "null"

\* useState<Tab>(availableTabs[0]?.id || 'api') for a user of the given role
MountedSettings(role) ==
    [role |-> role, isOpen |-> FALSE,
     activeTab |-> IF FirstTabId(role) # Undefined THEN FirstTabId(role) ELSE "api",
     effectPending |-> FALSE]

\* the AuthContext delivers the user with another role; the modal renders
\* with it and the effect of [isOpen, availableTabs, activeTab] is due
RoleChanged(role) ==
    /\ ~settings.effectPending
    /\ role # settings.role
    /\ settings' = [settings EXCEPT !.role = role, !.effectPending = TRUE]
    /\ UNCHANGED <<status, editorVars, notModals>>

\* Header: the Settings button is rendered for admin and manager
onSettingsClick ==
    /\ ~settings.effectPending
    /\ settings.role \in {"admin", "manager"}
    /\ ~settings.isOpen
    /\ settings' = [settings EXCEPT !.isOpen = TRUE, !.effectPending = TRUE]
    /\ UNCHANGED <<status, editorVars, notModals>>

\* the close button and the backdrop of the modal
onClose ==
    /\ ~settings.effectPending
    /\ settings.isOpen
    /\ settings' = [settings EXCEPT !.isOpen = FALSE, !.effectPending = TRUE]
    /\ UNCHANGED <<status, editorVars, notModals>>

\* a tab button of the aside
setActiveTab(tab) ==
    /\ ~settings.effectPending
    /\ settings.isOpen
    /\ tab \in TabIds(availableTabs(settings.role))
    /\ tab # settings.activeTab
    /\ settings' = [settings EXCEPT !.activeTab = tab, !.effectPending = TRUE]
    /\ UNCHANGED <<status, editorVars, notModals>>

\* the effect that resets the tab when it is not available; a reset changes
\* activeTab, so the effect is due again
ResetTabEffect ==
    /\ settings.effectPending
    /\ IF /\ settings.isOpen
          /\ settings.activeTab \notin TabIds(availableTabs(settings.role))
       THEN settings' = [settings EXCEPT
                            !.activeTab = FirstTabId(settings.role),
                            !.effectPending = FirstTabId(settings.role) # settings.activeTab]
       ELSE settings' = [settings EXCEPT !.effectPending = FALSE]
    /\ UNCHANGED <<status, editorVars, notModals>>

InitSettings == settings = MountedSettings("admin")

vars == <<appVars, cacheVars, editorVars, settingsVars>>
Init == InitApp /\ InitCache /\ store = <<>> /\ InitEditor /\ InitSettings
\* the cache on its own: the App stays as constructed
InitCacheOnly == InitApp /\ ~userApiKey /\ InitCache /\ InitEditor /\ InitSettings

(***************************************************************************)
(* The two modals of App and the Header buttons that open them.            *)
(***************************************************************************)
\* the App is mounted for a user of any role
InitModals ==
    /\ InitApp /\ InitCache /\ store = <<>> /\ InitEditor
    /\ \E role \in Roles : settings = MountedSettings(role)

EditorGenerate == Len(edits) < EditorMaxEdits /\ handleGenerate

NextModals ==
    \/ onImageEditorClick
    \/ handleClose
    \/ \E dataUrl \in Images : handleImageUpload(dataUrl)
    \/ \E dataUrl \in Images : handlePaste(dataUrl)
    \/ handleRemoveImage
    \/ \E nonBlank \in BOOLEAN : setPrompt(nonBlank)
    \/ EditorGenerate
    \/ \E e \in DOMAIN edits, ok \in BOOLEAN : EditAspectSettled(e, ok)
    \/ \E e \in DOMAIN edits, ok \in BOOLEAN : EditGenerated(e, ok)
    \/ \E role \in Roles : RoleChanged(role)
    \/ onSettingsClick
    \/ onClose
    \/ \E tab \in TabIds(ALL_TABS) : setActiveTab(tab)
    \/ ResetTabEffect

SpecModals == InitModals /\ [][NextModals]_vars

\* the effect runs so far, with those that are due
EffectRuns == Len(loads) + Cardinality({c \in Consumers : consumers[c].effectPending})

CacheMount(c, impl, src) == EffectRuns < MaxLoads /\ Mount(c, impl, src)
CacheChangeSrc(c, src) == EffectRuns < MaxLoads /\ ChangeSrc(c, src)
CacheRender(c, src) == EffectRuns < MaxLoads /\ Render(c, src)

NextCache ==
    \/ \E c \in Consumers, impl \in Impls, src \in Urls \cup {""} : CacheMount(c, impl, src)
    \/ \E c \in Consumers, src \in Urls \cup {""} : CacheChangeSrc(c, src)
    \/ \E c \in Consumers, src \in Urls \cup {""} : CacheRender(c, src)
    \/ \E c \in Consumers : FlushEffect(c)
    \/ \E c \in Consumers : Unmount(c)
    \/ \E l \in DOMAIN loads, threw \in BOOLEAN : ReadSettled(l, threw)
    \/ \E l \in DOMAIN loads, res \in {"ok", "notOk", "reject"} : FetchSettled(l, res)
    \/ \E l \in DOMAIN loads, ok \in BOOLEAN : BlobSettled(l, ok)
    \/ \E l \in DOMAIN loads, ok \in BOOLEAN : EncodeSettled(l, ok)
    \/ \E l \in DOMAIN loads, res \in {"load", "noContext", "tainted", "error"} :
          ImageSettled(l, res)
    \/ \E l \in DOMAIN loads, ok \in BOOLEAN : SaveSettled(l, ok)

SpecCache == InitCacheOnly /\ [][NextCache]_vars

\* ids a move or close event can carry: the ids of present and past nodes
NodeIds == 0..MaxNow
AppNodeIds == 0..AppMaxNow

(***************************************************************************)
(* The canvas alone: expansions of the applied artwork, drags and closes.  *)
(***************************************************************************)
CanvasExpand(ratio) == Len(exps) < MaxExpand /\ ExpandFromArt(ratio)
CanvasTick == now < MaxNow /\ Tick

NextCanvas ==
    \/ \E b64 \in Images : ApplyFromFile(b64)
    \/ \E ratio \in Ratios : CanvasExpand(ratio)
    \/ \E e \in DOMAIN exps, ok \in BOOLEAN : ExpandDownscaled(e, ok)
    \/ \E e \in DOMAIN exps, ok \in BOOLEAN, url \in Images, rect \in Rects :
          ExpandGenerated(e, ok, url, rect)
    \/ \E id \in NodeIds, pos \in Positions : handleNodePositionChange(id, pos)
    \/ \E id \in NodeIds : handleCloseNode(id)
    \/ CanvasTick

SpecCanvas == Init /\ [][NextCanvas]_vars

(***************************************************************************)
(* The whole App component.                                                *)
(***************************************************************************)
AppExpandFromArt(ratio) == Len(exps) < AppMaxExpand /\ ExpandFromArt(ratio)
AppExpandFromMockup(k, ratio) == Len(exps) < AppMaxExpand /\ ExpandFromMockup(k, ratio)
AppGenerateArt(count) == Len(runs) < AppMaxRuns /\ handleGenerateArt(count)
AppGenerateMockups(n, count) == Len(runs) < AppMaxRuns /\ handleGenerateMockups(n, count)
AppTick == now < AppMaxNow /\ Tick

NextApp ==
    \/ \E ratio \in Ratios : AppExpandFromArt(ratio)
    \/ \E k \in DOMAIN currentMockups, ratio \in Ratios : AppExpandFromMockup(k, ratio)
    \/ \E e \in DOMAIN exps, ok \in BOOLEAN : ExpandDownscaled(e, ok)
    \/ \E e \in DOMAIN exps, ok \in BOOLEAN, url \in AppImages, rect \in Rects :
          ExpandGenerated(e, ok, url, rect)
    \/ \E id \in AppNodeIds, pos \in Positions : handleNodePositionChange(id, pos)
    \/ \E id \in AppNodeIds : handleCloseNode(id)
    \/ handleCancel
    \/ \E count \in 1..MaxCount : AppGenerateArt(count)
    \/ \E r \in DOMAIN runs, ok \in BOOLEAN : ArtDownscaled(r, ok)
    \/ \E r \in DOMAIN runs, ok \in BOOLEAN, imgs \in UNION {[1..c -> AppImages] : c \in 1..MaxCount} :
          ArtGenerated(r, ok, imgs)
    \/ \E r \in DOMAIN runs : ArtLogged(r)
    \/ \E b64 \in AppImages : ApplyFromFile(b64)
    \/ ApplyPreview
    \/ \E step \in {-1, 1} : onCurrentIndexChange(step)
    \/ \E n \in 1..MaxPrompts, count \in 1..MaxCount : AppGenerateMockups(n, count)
    \/ \E r \in DOMAIN runs, ok \in BOOLEAN : MockupArtworkDownscaled(r, ok)
    \/ \E r \in DOMAIN runs, ok \in BOOLEAN : MockupSamplesDownscaled(r, ok)
    \/ \E r \in DOMAIN runs, ok \in BOOLEAN, url \in AppImages : MockupGenerated(r, ok, url)
    \/ \E r \in DOMAIN runs : MockupLogged(r)
    \/ handleSaveAllExpanded
    \/ \E ok \in BOOLEAN : SaveUpscaled(ok)
    \/ SaveDelayed
    \/ onUpscaleChange
    \/ AppTick

Spec == Init /\ [][NextApp]_vars

(***************************************************************************)
(* Connectors: the lines from a source element to its expanded nodes.      *)
(***************************************************************************)
\* the source elements present in the document: the main artwork image is
\* rendered while there is a current image, a log item for every mockup
\* that has no error
Anchors ==
    (IF currentImage # None THEN {MainArtworkImage} ELSE {})
    \cup {LogItem(currentMockups[k].id) :
            k \in {j \in DOMAIN currentMockups : ~currentMockups[j].error}}

\* connectorsFor: one segment for every node whose source resolves
RECURSIVE connectorsFrom(_, _, _)
connectorsFrom(nodes, anchors, k) ==
    IF k > Len(nodes) THEN <<>>
    ELSE (IF nodes[k].sourceId \in anchors
          THEN <<[node |-> k, from |-> nodes[k].sourceId, to |-> nodes[k].position]>>
          ELSE <<>>)
         \o connectorsFrom(nodes, anchors, k + 1)

connectorsFor(nodes, anchors) == connectorsFrom(nodes, anchors, 1)

\* a canvas that renders only the nodes whose source resolves
RenderedResolvableOnly ==
    LET resolves(n) == n.sourceId \in Anchors
        shown == SelectSeq(expandedNodes, resolves)
    IN  [k \in DOMAIN shown |-> shown[k].id]

\* App: expandedNodes.map(node => <ExpandedNodeComponent key={node.id} ... />)
RenderedNodes == [k \in DOMAIN expandedNodes |-> expandedNodes[k].id]

ConnMaxExpand == 2   \* handleExpandImage calls per behaviour
ConnMaxRuns == 2     \* generation runs per behaviour

ConnExpandFromArt(ratio) == Len(exps) < ConnMaxExpand /\ ExpandFromArt(ratio)
ConnExpandFromMockup(k, ratio) == Len(exps) < ConnMaxExpand /\ ExpandFromMockup(k, ratio)
ConnGenerateArt(count) == Len(runs) < ConnMaxRuns /\ handleGenerateArt(count)
ConnGenerateMockups(n, count) == Len(runs) < ConnMaxRuns /\ handleGenerateMockups(n, count)

\* the handlers that add, move and remove nodes and source elements; every
\* run asks for one image and the clock stands still
NextConnectors ==
    \/ \E ratio \in Ratios : ConnExpandFromArt(ratio)
    \/ \E k \in DOMAIN currentMockups, ratio \in Ratios : ConnExpandFromMockup(k, ratio)
    \/ \E e \in DOMAIN exps, ok \in BOOLEAN : ExpandDownscaled(e, ok)
    \/ \E e \in DOMAIN exps, ok \in BOOLEAN, url \in AppImages, rect \in Rects :
          ExpandGenerated(e, ok, url, rect)
    \/ \E pos \in Positions : handleNodePositionChange(0, pos)
    \/ handleCloseNode(0)
    \/ ConnGenerateArt(1)
    \/ \E r \in DOMAIN runs, ok \in BOOLEAN : ArtDownscaled(r, ok)
    \/ \E r \in DOMAIN runs, ok \in BOOLEAN, imgs \in [1..1 -> AppImages] :
          ArtGenerated(r, ok, imgs)
    \/ \E r \in DOMAIN runs : ArtLogged(r)
    \/ \E b64 \in AppImages : ApplyFromFile(b64)
    \/ ApplyPreview
    \/ ConnGenerateMockups(1, 1)
    \/ \E r \in DOMAIN runs, ok \in BOOLEAN : MockupArtworkDownscaled(r, ok)
    \/ \E r \in DOMAIN runs, ok \in BOOLEAN : MockupSamplesDownscaled(r, ok)
    \/ \E r \in DOMAIN runs, ok \in BOOLEAN, url \in AppImages : MockupGenerated(r, ok, url)
    \/ \E r \in DOMAIN runs : MockupLogged(r)

SpecConnectors == Init /\ [][NextConnectors]_vars

(***************************************************************************)
(* The generation runs of App: artwork and mockup runs that overlap, the   *)
(* Cancel button, and the navigation and application of the previews.      *)
(***************************************************************************)
RunsMaxRuns == 3     \* generation runs per behaviour

RunsGenerateArt(count) == Len(runs) < RunsMaxRuns /\ handleGenerateArt(count)
RunsGenerateMockups(n, count) == Len(runs) < RunsMaxRuns /\ handleGenerateMockups(n, count)

NextRuns ==
    \/ handleCancel
    \/ \E count \in 1..MaxCount : RunsGenerateArt(count)
    \/ \E r \in DOMAIN runs, ok \in BOOLEAN : ArtDownscaled(r, ok)
    \/ \E r \in DOMAIN runs, ok \in BOOLEAN, imgs \in UNION {[1..c -> AppImages] : c \in 1..MaxCount} :
          ArtGenerated(r, ok, imgs)
    \/ \E r \in DOMAIN runs : ArtLogged(r)
    \/ \E b64 \in AppImages : ApplyFromFile(b64)
    \/ ApplyPreview
    \/ \E step \in {-1, 1} : onCurrentIndexChange(step)
    \/ \E n \in 1..MaxPrompts, count \in 1..MaxCount : RunsGenerateMockups(n, count)
    \/ \E r \in DOMAIN runs, ok \in BOOLEAN : MockupArtworkDownscaled(r, ok)
    \/ \E r \in DOMAIN runs, ok \in BOOLEAN : MockupSamplesDownscaled(r, ok)
    \/ \E r \in DOMAIN runs, ok \in BOOLEAN, url \in AppImages : MockupGenerated(r, ok, url)
    \/ \E r \in DOMAIN runs : MockupLogged(r)

SpecRuns == Init /\ [][NextRuns]_vars

(***************************************************************************)
(* The calls of the two Generate handlers: with and without an API key,    *)
(* with and without an applied artwork, mockup runs of several prompts.    *)
(***************************************************************************)
GenMaxRuns == 2      \* generation runs per behaviour
GenMaxPrompts == 2   \* prompts of a mockup run

GenGenerateArt(count) == Len(runs) < GenMaxRuns /\ handleGenerateArt(count)
GenGenerateMockups(n, count) == Len(runs) < GenMaxRuns /\ handleGenerateMockups(n, count)

NextGenerate ==
    \/ ApiKeysChanged
    \/ handleCancel
    \/ GenGenerateArt(1)
    \/ \E r \in DOMAIN runs, ok \in BOOLEAN : ArtDownscaled(r, ok)
    \/ \E r \in DOMAIN runs, ok \in BOOLEAN, imgs \in [1..1 -> AppImages] :
          ArtGenerated(r, ok, imgs)
    \/ \E r \in DOMAIN runs : ArtLogged(r)
    \/ \E b64 \in AppImages : ApplyFromFile(b64)
    \/ \E n \in 1..GenMaxPrompts, count \in 1..MaxCount : GenGenerateMockups(n, count)
    \/ \E r \in DOMAIN runs, ok \in BOOLEAN : MockupArtworkDownscaled(r, ok)
    \/ \E r \in DOMAIN runs, ok \in BOOLEAN : MockupSamplesDownscaled(r, ok)
    \/ \E r \in DOMAIN runs, ok \in BOOLEAN, url \in AppImages : MockupGenerated(r, ok, url)
    \/ \E r \in DOMAIN runs : MockupLogged(r)

SpecGenerate == Init /\ [][NextGenerate]_vars

(***************************************************************************)
(* Properties of the canvas                                                *)
(***************************************************************************)
HasId(nodes, id) == \E k \in DOMAIN nodes : nodes[k].id = id

\* the successful creations so far
Created == Cardinality({e \in DOMAIN exps : exps[e].pc = "ok"})

\* C1: after any sequence of successful expansions and closes the nodes of
\* expandedNodes have pairwise distinct ids, and while no node was closed
\* there are as many nodes as successful creations.
C1_UniqueIdsAndSize ==
    /\ \A i, j \in DOMAIN expandedNodes :
          i # j => expandedNodes[i].id # expandedNodes[j].id
    /\ removed = 0 => Len(expandedNodes) = Created

\* C2: handleCloseNode(id) removes exactly one node, the one with that id,
\* and leaves every other node; with an id that is not (or no longer)
\* there it leaves the collection unchanged.
C2_CloseRemovesExactlyOne ==
    [][\A id \in NodeIds : handleCloseNode(id) =>
          IF HasId(expandedNodes, id)
          THEN /\ Len(expandedNodes') = Len(expandedNodes) - 1
               /\ ~HasId(expandedNodes', id)
               /\ \A k \in DOMAIN expandedNodes :
                     expandedNodes[k].id # id =>
                        \E j \in DOMAIN expandedNodes' : expandedNodes'[j] = expandedNodes[k]
          ELSE expandedNodes' = expandedNodes]_vars

\* C3: handleNodePositionChange(id, pos) sets the position of the node with
\* that id to pos and leaves every other node, the number of nodes and
\* their order unchanged; without a node of that id nothing changes.
C3_MoveSetsOnlyThatNode ==
    [][\A id \in NodeIds, pos \in Positions : handleNodePositionChange(id, pos) =>
          /\ Len(expandedNodes') = Len(expandedNodes)
          /\ IF HasId(expandedNodes, id)
             THEN \E k \in DOMAIN expandedNodes :
                     /\ expandedNodes[k].id = id
                     /\ expandedNodes'[k] = [expandedNodes[k] EXCEPT !.position = pos]
                     /\ \A j \in DOMAIN expandedNodes \ {k} :
                           expandedNodes'[j] = expandedNodes[j]
             ELSE expandedNodes' = expandedNodes]_vars

\* C7: an expansion request that was in flight when handleCancel ran never
\* appends a node.
C7_CancelledRequestCreatesNoNode ==
    \A e \in DOMAIN exps : exps[e].cancelled => exps[e].pc # "ok"

\* C8: a node is created only by an expansion request that succeeds: a call
\* without API key, a failed downscale and a failed generation leave
\* expandedNodes as it was and show an error status, every added node
\* comes from a request that succeeds in the same step, and the nodes on
\* the canvas plus the closed ones are as many as the successful requests.
C8_NodeOnlyOnSuccess ==
    [][/\ \A e \in DOMAIN exps :
             exps[e].pc # "failed" /\ exps'[e].pc = "failed" =>
                expandedNodes' = expandedNodes /\ status'.type = "err"
       /\ (~userApiKey /\ \E ratio \in Ratios : ExpandFromArt(ratio)) =>
             expandedNodes' = expandedNodes /\ exps' = exps /\ status'.type = "err"
       /\ Len(expandedNodes') > Len(expandedNodes) =>
             \E e \in DOMAIN exps : exps[e].pc = "generate" /\ exps'[e].pc = "ok"
       /\ Len(expandedNodes') + removed' = Created']_vars

\* a request failed while a node of an earlier request is on the canvas
C8_Witness ==
    /\ expandedNodes # <<>>
    /\ status.message = "expandFailed"
    /\ \E e \in DOMAIN exps : exps[e].pc = "failed"

\* C9: connectorsFor yields exactly one segment for every node whose
\* sourceId resolves to a source element and none for the others, so there
\* are never more segments than nodes; every node is rendered, with or
\* without a segment.
C9_OneSegmentPerResolvableNode ==
    LET segs == connectorsFor(expandedNodes, Anchors)
    IN  /\ Len(segs) <= Len(expandedNodes)
        /\ \A k \in DOMAIN expandedNodes :
              Cardinality({i \in DOMAIN segs : segs[i].node = k})
                 = IF expandedNodes[k].sourceId \in Anchors THEN 1 ELSE 0
        /\ Len(RenderedNodes) = Len(expandedNodes)

\* one node's source resolves and another one's does not
C9_Witness ==
    /\ \E k \in DOMAIN expandedNodes : expandedNodes[k].sourceId \in Anchors
    /\ \E k \in DOMAIN expandedNodes : expandedNodes[k].sourceId \notin Anchors

\* a step of cancelling, of generating or applying artwork, of generating
\* mockups or of saving the expanded images
OtherOperation ==
    \/ handleCancel
    \/ \E count \in 1..MaxCount : handleGenerateArt(count)
    \/ \E r \in DOMAIN runs, ok \in BOOLEAN : ArtDownscaled(r, ok)
    \/ \E r \in DOMAIN runs, ok \in BOOLEAN, imgs \in UNION {[1..c -> AppImages] : c \in 1..MaxCount} :
          ArtGenerated(r, ok, imgs)
    \/ \E r \in DOMAIN runs : ArtLogged(r)
    \/ \E b64 \in AppImages : ApplyFromFile(b64)
    \/ ApplyPreview
    \/ \E n \in 1..MaxPrompts, count \in 1..MaxCount : handleGenerateMockups(n, count)
    \/ \E r \in DOMAIN runs, ok \in BOOLEAN : MockupArtworkDownscaled(r, ok)
    \/ \E r \in DOMAIN runs, ok \in BOOLEAN : MockupSamplesDownscaled(r, ok)
    \/ \E r \in DOMAIN runs, ok \in BOOLEAN, url \in AppImages : MockupGenerated(r, ok, url)
    \/ \E r \in DOMAIN runs : MockupLogged(r)
    \/ handleSaveAllExpanded
    \/ \E ok \in BOOLEAN : SaveUpscaled(ok)
    \/ SaveDelayed

\* C10: only handleCloseNode removes a node: a step that makes
\* expandedNodes shorter is a close, and cancelling, generating or applying
\* artwork, generating mockups and saving the expanded images leave
\* expandedNodes unchanged.
C10_OnlyCloseRemovesNodes ==
    [][/\ Len(expandedNodes') < Len(expandedNodes) =>
             \E id \in AppNodeIds : handleCloseNode(id)
       /\ OtherOperation => expandedNodes' = expandedNodes]_vars

\* a mockup run was started and the expanded images were saved while a node
\* is on the canvas
C10_Witness ==
    /\ expandedNodes # <<>>
    /\ status.message = "savedExpanded"
    /\ \E r \in DOMAIN runs : runs[r].kind = "mockup"

(***************************************************************************)
(* Properties of CachedImage                                               *)
(***************************************************************************)
\* the effect run l has not been cleaned up
Live(l) == loads[l].isMounted /\ ~consumers[loads[l].owner].effectPending
\* what the consumer of load l displays
Shown(l) == consumers[loads[l].owner].imageSrc
\* the load and its background save are over
Finished(l) == loads[l].pc \in {"hit", "loaded", "fallback"} /\ loads[l].save # "pending"

\* C4 (as stated): once content for a url is in the store, every later load
\* of that url performs no network fetch.
C4_StoredNeverFetchedAgain ==
    \A l \in DOMAIN loads : loads[l].startHit => ~loads[l].fetched

\* C4 (amended): once content for a url is in the store, every later load
\* of that url whose store read does not throw performs no network fetch
\* and no save and, while it is the live load of its consumer, displays
\* the stored content; fetchCount counts the loads that went to the network.
C4_HitShowsStoredWithoutFetch ==
    /\ \A l \in DOMAIN loads :
          loads[l].startHit /\ loads[l].read \notin {"pending", "threw"} =>
             /\ loads[l].pc = "hit"
             /\ ~loads[l].fetched
             /\ loads[l].save = "none"
             /\ Live(l) => /\ Shown(l).kind = "data"
                           /\ Shown(l).url = loads[l].src
                           /\ Shown(l) = loads[l].dataUrl
    /\ \A u \in Urls :
          fetchCount[u] = Cardinality({l \in DOMAIN loads : loads[l].src = u /\ loads[l].fetched})

\* a url was fetched once and saved, and a later load shows it from the store
C4_Witness ==
    \E l \in DOMAIN loads :
       /\ loads[l].startHit /\ loads[l].read = "hit" /\ Live(l)
       /\ fetchCount[loads[l].src] = 1
       /\ Shown(l) = loads[l].dataUrl

\* C5: when the network path of a load fails (fetch rejects, response not
\* ok, blob or encoding fails, image error, no canvas context, tainted
\* canvas) the load ends with the raw url displayed by its live consumer
\* and without a write to the store.
C5_FetchFailureFallsBackToUrl ==
    \A l \in DOMAIN loads :
       loads[l].pc = "fallback" =>
          /\ loads[l].fetched
          /\ loads[l].save = "none"
          /\ Live(l) => Shown(l) = RawUrl(loads[l].src)

\* a live load of an uncached url failed and shows the url
C5_Witness ==
    \E l \in DOMAIN loads :
       /\ loads[l].pc = "fallback" /\ Live(l)
       /\ EntriesFor(store, loads[l].src) = {}
       /\ Shown(l) = RawUrl(loads[l].src)

\* two consumers loaded the same url, uncached when each of them started,
\* and both are done
BothDone(l1, l2) ==
    /\ l1 # l2
    /\ loads[l1].owner # loads[l2].owner
    /\ loads[l1].src = loads[l2].src
    /\ ~loads[l1].startHit /\ ~loads[l2].startHit
    /\ Finished(l1) /\ Finished(l2)

\* C6 (as stated): when two consumers load the same uncached url
\* concurrently the store ends with exactly one entry for the url.
C6_ExactlyOneEntry ==
    \A l1, l2 \in DOMAIN loads :
       BothDone(l1, l2) => Cardinality(EntriesFor(store, loads[l1].src)) = 1

\* C6 (amended): the store never holds more than one entry for a url, and
\* when two consumers load the same uncached url concurrently it ends with
\* exactly one entry if at least one of their background saves succeeded.
C6_OneEntryIfSaved ==
    /\ \A u \in Urls : Cardinality(EntriesFor(store, u)) <= 1
    /\ \A l1, l2 \in DOMAIN loads :
          BothDone(l1, l2) /\ (loads[l1].save = "saved" \/ loads[l2].save = "saved") =>
             Cardinality(EntriesFor(store, loads[l1].src)) = 1

\* both consumers fetched and both saves landed
C6_Witness ==
    \E l1, l2 \in DOMAIN loads :
       /\ BothDone(l1, l2)
       /\ loads[l1].save = "saved" /\ loads[l2].save = "saved"
       /\ Cardinality(EntriesFor(store, loads[l1].src)) = 1

\* C11: put(url, content) is an idempotent overwrite: after a successful
\* save the store holds exactly one entry for the url, with the content
\* just written, every other key keeps its content, and the same save once
\* more leaves the store as it is.
C11_PutIsIdempotentOverwrite ==
    [][\A l \in DOMAIN loads : SaveSettled(l, TRUE) =>
          LET key == loads[l].src
              value == loads[l].dataUrl
          IN  /\ Cardinality(EntriesFor(store', key)) = 1
              /\ getImage(store', key) = value
              /\ \A u \in Urls \ {key} :
                    /\ getImage(store', u) = getImage(store, u)
                    /\ Cardinality(EntriesFor(store', u)) = Cardinality(EntriesFor(store, u))
              /\ saveImage(store', key, value) = store']_vars

\* two loads saved different content under one url, while another url is stored
C11_Witness ==
    \E l1, l2 \in DOMAIN loads :
       /\ loads[l1].src = loads[l2].src
       /\ loads[l1].save = "saved" /\ loads[l2].save = "saved"
       /\ loads[l1].dataUrl # loads[l2].dataUrl
       /\ Cardinality(EntriesFor(store, loads[l1].src)) = 1
       /\ \E u \in Urls \ {loads[l1].src} : EntriesFor(store, u) # {}

\* C12: the position given to a new node is offset from the rectangle of
\* its source element, (right - 420, top - 50), and is never the
\* rectangle's top-left corner.
C12_NewNodeOffsetFromAnchor ==
    [][\A e \in DOMAIN exps, url \in Images, rect \in Rects :
          ExpandGenerated(e, TRUE, url, rect) =>
             LET node == expandedNodes'[Len(expandedNodes')]
             IN  /\ node.position # [x |-> rect.x, y |-> rect.y]
                 /\ node.position.x = rect.x + rect.w - 420
                 /\ node.position.y = rect.y - 50]_vars

\* a node created from the source rectangle {x: 100, y: 50, w: 40, h: 40}
\* and one created from a rectangle whose right edge is 420 right of its left
C12_Witness ==
    /\ \E k \in DOMAIN expandedNodes : expandedNodes[k].position = [x |-> -280, y |-> 0]
    /\ \E k \in DOMAIN expandedNodes : expandedNodes[k].position = [x |-> 60, y |-> 0]

\* C13: a move event that arrives after the close of its node changes
\* nothing: a move for an id that no node carries leaves expandedNodes as it
\* is, a close leaves no node of the closed id, and an id that is absent
\* comes back only with the node of an expansion that succeeds.
C13_MoveAfterCloseIsNoOp ==
    [][/\ \A id \in NodeIds, pos \in Positions :
             handleNodePositionChange(id, pos) /\ ~HasId(expandedNodes, id) =>
                expandedNodes' = expandedNodes
       /\ \A id \in NodeIds : handleCloseNode(id) => ~HasId(expandedNodes', id)
       /\ \A id \in NodeIds :
             ~HasId(expandedNodes, id) /\ HasId(expandedNodes', id) =>
                \E e \in DOMAIN exps : exps[e].pc = "generate" /\ exps'[e].pc = "ok"]_vars

\* a node was closed, a move event for its id was applied afterwards, and
\* the canvas is empty
C13_Witness ==
    /\ removed > 0
    /\ staleMove
    /\ expandedNodes = <<>>

Ended(l) == loads[l].pc \in {"hit", "loaded", "fallback"}

\* C15: a store read that throws is treated as a miss: the load goes on to
\* the network and, once it has ended, its live consumer shows the fetched
\* content or the raw url, not the placeholder.
C15_ReadFailureIsAMiss ==
    \A l \in DOMAIN loads :
       loads[l].read = "threw" =>
          /\ loads[l].fetched
          /\ loads[l].pc \in {"fetch", "blob", "blobToDataURL", "image", "loaded", "fallback"}
          /\ Ended(l) /\ Live(l) =>
                /\ Shown(l) # Null
                /\ Shown(l) = IF loads[l].pc = "loaded"
                              THEN DataUrl(loads[l].src, IF loads[l].impl = "fetch" THEN "raw" ELSE "png")
                              ELSE RawUrl(loads[l].src)

\* the read of a stored url threw and the live consumer shows fetched content
C15_Witness ==
    \E l \in DOMAIN loads :
       /\ loads[l].read = "threw" /\ loads[l].startHit
       /\ loads[l].pc = "loaded" /\ Live(l)
       /\ Shown(l).kind = "data"

\* C16 (as stated): after a failed store write the consumer keeps showing
\* the fetched content and the store has no entry for the url.
C16_FailedWriteLeavesNoEntry ==
    \A l \in DOMAIN loads :
       loads[l].save = "failed" =>
          /\ Live(l) => Shown(l) = loads[l].dataUrl
          /\ EntriesFor(store, loads[l].src) = {}

\* C16 (amended): a failed store write changes neither what is displayed
\* nor the store: the live consumer keeps showing the fetched content, the
\* store holds for the url what it held before the write (nothing, unless
\* another load saved the url), and a later load whose read finds no entry
\* for the url is a miss that fetches again.
C16_FailedWriteChangesNothing ==
    [][/\ \A l \in DOMAIN loads :
             SaveSettled(l, FALSE) => store' = store /\ consumers' = consumers
       /\ \A l \in DOMAIN loads' :
             loads'[l].save = "failed" /\ Live(l)' =>
                /\ consumers'[loads'[l].owner].imageSrc = loads'[l].dataUrl
                /\ loads'[l].dataUrl.kind = "data"
       /\ \A l \in DOMAIN loads :
             (\E threw \in BOOLEAN : ReadSettled(l, threw))
             /\ EntriesFor(store, loads[l].src) = {} =>
                /\ loads'[l].fetched
                /\ fetchCount'[loads[l].src] = fetchCount[loads[l].src] + 1]_vars

\* the save of a first load failed, its consumer still shows the content,
\* and a later load of the url missed and fetched again
C16_Witness ==
    \E l1, l2 \in DOMAIN loads :
       /\ l1 < l2
       /\ loads[l1].src = loads[l2].src
       /\ loads[l1].save = "failed" /\ Live(l1) /\ Shown(l1) = loads[l1].dataUrl
       /\ EntriesFor(store, loads[l1].src) = {}
       /\ ~loads[l2].startHit /\ loads[l2].read = "miss" /\ loads[l2].fetched
       /\ fetchCount[loads[l1].src] = 2

\* C17: a load whose consumer was unmounted (or given another src) while it
\* was in flight still runs to its end and still saves what it fetched, but
\* no step of it changes what any consumer displays.
C17_UnmountedLoadSavesButNeverDisplays ==
    [][\A l \in DOMAIN loads :
          ~loads[l].isMounted =>
             /\ loads'[l] # loads[l] /\ Len(loads') = Len(loads) => consumers' = consumers
             /\ loads[l].pc # "loaded" /\ loads'[l].pc = "loaded" =>
                   /\ loads'[l].save = "pending"
                   /\ loads'[l].dataUrl.kind = "data"
             /\ SaveSettled(l, TRUE) =>
                   /\ getImage(store', loads[l].src) = loads[l].dataUrl
                   /\ consumers' = consumers]_vars

\* a consumer was unmounted during its fetch; the content was fetched and
\* stored all the same and the consumer shows nothing
C17_Witness ==
    \E l \in DOMAIN loads :
       /\ loads[l].cutOff /\ ~loads[l].startHit
       /\ ~consumers[loads[l].owner].mounted
       /\ consumers[loads[l].owner].imageSrc = Null
       /\ loads[l].pc = "loaded" /\ loads[l].save = "saved"
       /\ getImage(store, loads[l].src) = loads[l].dataUrl

\* the network strategies a load has tried: loadImage of CachedImage.tsx
\* has the byte fetch only, its Image/canvas variant the re-encoding only
StrategiesTried(l) == IF loads[l].fetched THEN {loads[l].impl} ELSE {}

\* C18: on a miss the byte fetch is tried first and, when it fails, the
\* draw-and-re-encode strategy; a load falls back to the raw url only after
\* both strategies were tried.
C18_BothStrategiesBeforeRawUrl ==
    \A l \in DOMAIN loads :
       /\ loads[l].pc \in {"image", "loaded", "fallback"} /\ loads[l].fetched =>
             "fetch" \in StrategiesTried(l)
       /\ loads[l].pc = "fallback" => StrategiesTried(l) = {"fetch", "canvas"}

\* C19: within one load the store read settles before the network is asked
\* (a read that throws counts as a miss), the save of the load is issued only
\* after its read missed and its network path succeeded, and a load whose
\* read hit neither fetches nor saves.
C19_ReadBeforeFetchBeforeWrite ==
    [][/\ \A l \in DOMAIN loads' :
             /\ loads'[l].pc = "getImage" =>
                   /\ loads'[l].read = "pending"
                   /\ ~loads'[l].fetched
                   /\ loads'[l].save = "none"
             /\ loads'[l].fetched => loads'[l].read \in {"miss", "threw"}
             /\ loads'[l].save # "none" =>
                   /\ loads'[l].read \in {"miss", "threw"}
                   /\ loads'[l].fetched
                   /\ loads'[l].pc = "loaded"
             /\ loads'[l].read = "hit" =>
                   /\ ~loads'[l].fetched
                   /\ loads'[l].save = "none"
                   /\ loads'[l].pc = "hit"
       /\ \A l \in DOMAIN loads :
             /\ ~loads[l].fetched /\ loads'[l].fetched =>
                   loads[l].read = "pending" /\ loads'[l].read \in {"miss", "threw"}
             /\ loads[l].save = "none" /\ loads'[l].save # "none" =>
                   /\ loads[l].pc \in {"blobToDataURL", "image"}
                   /\ loads[l].read \in {"miss", "threw"}
             /\ store' # store =>
                   \/ loads[l].save # "pending"
                   \/ loads'[l].save # "saved"
                   \/ loads[l].pc = "loaded"]_vars

\* a load read a miss, fetched, and its save reached the store
C19_Witness ==
    \E l \in DOMAIN loads :
       /\ loads[l].read = "miss" /\ loads[l].fetched
       /\ loads[l].pc = "loaded" /\ loads[l].save = "saved"
       /\ loads[l].impl = "fetch"
       /\ getImage(store, loads[l].src) = loads[l].dataUrl

(***************************************************************************)
(* CachedImage with every asynchronous step settling: the promise of the   *)
(* store read, of fetch, of blob(), of blobToDataURL, and the load or      *)
(* error event of the image are delivered at some time.                    *)
(***************************************************************************)
LoadIds == 1..MaxLoads

Settles(l) ==
    /\ WF_vars(\E threw \in BOOLEAN : ReadSettled(l, threw))
    /\ WF_vars(\E res \in {"ok", "notOk", "reject"} : FetchSettled(l, res))
    /\ WF_vars(\E ok \in BOOLEAN : BlobSettled(l, ok))
    /\ WF_vars(\E ok \in BOOLEAN : EncodeSettled(l, ok))
    /\ WF_vars(\E res \in {"load", "noContext", "tainted", "error"} : ImageSettled(l, res))

SpecCacheLive ==
    /\ InitCacheOnly
    /\ [][NextCache]_vars
    /\ \A l \in LoadIds : Settles(l)

\* C20: while a consumer stays mounted with the same non-empty url it shows
\* the placeholder until its load ends; if every asynchronous step settles,
\* what it shows becomes non-empty (stored content, fetched content or the
\* raw url), and from then on it does not go back to the placeholder.
C20_PlaceholderUntilResolvedThenContent ==
    /\ \A l \in LoadIds :
          (l \in DOMAIN loads /\ Live(l))
             ~> (l \in DOMAIN loads /\ (~Live(l) \/ Shown(l) # Null))
    /\ [][\A l \in DOMAIN loads :
             /\ Live(l) /\ ~Ended(l) => Shown(l) = Null
             /\ Live(l) /\ Ended(l) => Shown(l) # Null
             /\ Live(l) /\ Shown(l) # Null /\ loads'[l].isMounted =>
                   consumers'[loads[l].owner].imageSrc = Shown(l)]_vars

\* a consumer that stayed mounted shows the fetched content although the
\* save of it failed
C20_Witness ==
    \E l \in DOMAIN loads :
       /\ Live(l) /\ ~loads[l].cutOff
       /\ loads[l].pc = "loaded" /\ loads[l].save = "failed"
       /\ Shown(l) = loads[l].dataUrl /\ Shown(l) # Null

\* C21: concurrent misses are not coalesced: every load whose read found no
\* content asks the network itself, so that two loads of one url that both
\* missed make two fetches, and each of them that gets the content issues a
\* save of its own.
C21_MissesAreNotCoalesced ==
    /\ \A l \in DOMAIN loads :
          /\ loads[l].read \in {"miss", "threw"} => loads[l].fetched
          /\ loads[l].pc = "loaded" => loads[l].save # "none"
    /\ \A u \in Urls :
          fetchCount[u] = Cardinality({l \in DOMAIN loads :
                                          loads[l].src = u /\ loads[l].read \in {"miss", "threw"}})

\* two consumers missed the same url while neither had saved; there were
\* two fetches, and two saves are on their way
C21_Witness ==
    \E l1, l2 \in DOMAIN loads :
       /\ l1 # l2 /\ loads[l1].owner # loads[l2].owner
       /\ loads[l1].src = loads[l2].src
       /\ loads[l1].read = "miss" /\ loads[l2].read = "miss"
       /\ fetchCount[loads[l1].src] = 2
       /\ loads[l1].save = "pending" /\ loads[l2].save = "pending"
       /\ EntriesFor(store, loads[l1].src) = {}

\* what consumer c displays is nothing, content of its src, or its src
ShowsOwnSrc(c) ==
    \/ consumers[c].imageSrc = Null
    \/ /\ consumers[c].imageSrc.kind \in {"data", "url"}
       /\ consumers[c].imageSrc.url = consumers[c].src

\* C22: what a CachedImage displays always belongs to its current src: it
\* is null, content loaded for the current src, or the current src itself;
\* a load started for an earlier src never sets what is displayed.
C22_DisplayedBelongsToSrc ==
    \A c \in Consumers : consumers[c].mounted => ShowsOwnSrc(c)

(***************************************************************************)
(* Properties of the generation runs                                       *)
(***************************************************************************)
\* run r takes a step
RunSteps(r) ==
    /\ r \in DOMAIN runs
    /\ \/ runs'[r].pc # runs[r].pc
       \/ runs'[r].li # runs[r].li
       \/ runs'[r].i # runs[r].i

\* C23: after handleCancel, no generation run that was in flight at the
\* cancel sets previews, adds to currentMockups or adds a log entry.
C23_CancelStopsEveryRun ==
    [][\A r \in DOMAIN runs :
          runs[r].cancelled /\ RunSteps(r)
             => UNCHANGED <<previews, currentMockups, generationLog>>]_vars

\* run r is in flight and no handleCancel ran since it started
Active(r) == runs[r].pc # "done" /\ ~runs[r].cancelled

\* C24: isLoading is true in every state in which some generation run that
\* has not been cancelled is still in flight.
C24_LoadingWhileRunActive ==
    (\E r \in DOMAIN runs : Active(r)) => isLoading

\* C25: in every reachable state progress.done is at most progress.total.
C25_DoneAtMostTotal == progress.done <= progress.total

\* C28: whenever previews is non-empty, 0 <= currentIndex < previews.length.
C28_CurrentIndexInRange ==
    Len(previews) > 0 => 0 <= currentIndex /\ currentIndex < Len(previews)

\* the number of the job (pi, i) of a run, counted from 1
JobNumber(run) == (run.pi - 1) * run.count + run.i + 1

\* the run ended in its job loop, not in one of the two downscale calls
RanJobs(run) == run.pc = "done" /\ run.entry # NoEntry

MockupsRefused == artwork = None \/ ~userApiKey

\* C27: handleGenerateMockups without an applied artwork or without an API
\* key changes nothing but the status message (currentMockups, isLoading
\* and progress are untouched, no run starts); handleGenerateArt without an
\* API key leaves previews and isLoading unchanged.
C27_RefusedGenerateOnlySetsStatus ==
    [][/\ (\E n \in 1..GenMaxPrompts, count \in 1..MaxCount : handleGenerateMockups(n, count))
            /\ MockupsRefused
          => /\ UNCHANGED <<currentMockups, isLoading, progress, runs, abortControllerRef,
                            generationLog, previews, currentIndex, artwork, expandedNodes>>
             /\ status'.type = "err"
       /\ (\E count \in 1..MaxCount : handleGenerateArt(count)) /\ ~userApiKey
          => /\ UNCHANGED <<previews, isLoading, currentIndex, progress, runs,
                            abortControllerRef, generationLog, currentMockups>>
             /\ status'.type = "err"]_vars

\* mockups of an earlier run are shown, the key is gone, and a Generate
\* call has just been refused
C27_Witness ==
    /\ ~userApiKey
    /\ status.message = "noApiKey"
    /\ Len(currentMockups) > 0
    /\ \E r \in DOMAIN runs : runs[r].kind = "mockup" /\ runs[r].pc = "done"

(***************************************************************************)
(* Properties of the image editor and of the settings modal                *)
(***************************************************************************)
\* C29: in the image editor a non-null outputImage was always generated
\* from the current sourceImage.
C29_OutputBelongsToSource ==
    editor.outputImage # NullOutput => editor.outputImage.of = editor.sourceImage

AdminPanels == {"ApiKeyPanel", "UserManagementPanel"}

\* C30: the API-key panel and the user-management panel are rendered only
\* for an admin, whatever activeTab is; a manager sees only the non-admin
\* tabs; any other role sees no tab and no panel.
C30_PanelsFollowRole ==
    /\ RenderedPanel \in AdminPanels => settings.role = "admin"
    /\ settings.role = "manager" /\ settings.isOpen
          => RenderedTabs = {"prompts", "samples", "refs", "cuts"}
    /\ settings.role \notin {"admin", "manager"}
          => RenderedTabs = {} /\ RenderedPanel = "null"

====
